---- MODULE Spec2Model ----
(***************************************************************************)
(* Model of manhattan_pathloss.py: the street/vehicle generator            *)
(* (gen_streets_and_vehicles), the grid assembly, observer selection,      *)
(* LOS/OLOS/NLOS classification and pathloss aggregation of main_sim.      *)
(*                                                                         *)
(* numpy arrays are sequences.  Python indexes from 0, sequences from 1:   *)
(* array position k of the program is position k+1 here.  A vehicle row    *)
(* (c0, c1, dir) is the tuple <<c0, c1, dir>>; the column with Python      *)
(* index k is read with At(v, k).                                          *)
(***************************************************************************)
EXTENDS Integers, Sequences, FiniteSets

\* ---------------------------------------------------------------- bounds
\* largest value np.random.poisson returns for the street count
MaxStreets == 2
\* largest value np.random.poisson returns for a street's vehicle count
MaxVehStreet == 2
\* largest number of vehicles of an assembled population (Spec)
MaxVehAll == 5
\* road_len of main_sim, scaled down
RoadLen == 4
\* values np.random.uniform(0, road_len) returns in a run of the generator
UniformSamples == {1, 2}
\* street coordinates of the populations main_sim is run on (Spec)
StreetSamples == {1, 2}
\* along-street positions of the populations main_sim is run on (Spec)
AlongSamples == {0, 1, 2, 3}

\* ------------------------------------------------------- numpy primitives
\* column with Python index k of a row
At(v, k) == v[k + 1]

RECURSIVE SortedSeq(_)
\* the elements of a finite set of integers in ascending order
SortedSeq(S) ==
    IF S = {} THEN <<>>
    ELSE LET m == CHOOSE x \in S : \A y \in S : x <= y
         IN  <<m>> \o SortedSeq(S \ {m})

Range(s) == {s[k] : k \in 1..Len(s)}

\* np.arange(n)
Arange(n) == [k \in 1..n |-> k]

\* np.flatnonzero(mask): ascending positions where the mask holds
Flatnonzero(mask) == SortedSeq({k \in 1..Len(mask) : mask[k]})

\* np.intersect1d(a, b): sorted unique common values
Intersect1d(a, b) == SortedSeq(Range(a) \cap Range(b))

Setdiff1d_keepAll(a, b) == SortedSeq(Range(a))

\* np.setdiff1d(a, b): sorted unique values of a that are not in b
Setdiff1d(a, b) == SortedSeq(Range(a) \ Range(b))

\* a[idx] with an index array
Take(a, idx) == [k \in 1..Len(idx) |-> a[idx[k]]]

\* np.argmin(a): first position of the minimum; ValueError on an empty array
Argmin(a) == CHOOSE k \in 1..Len(a) :
                 /\ \A j \in 1..Len(a) : a[k] <= a[j]
                 /\ \A j \in 1..(k - 1) : a[j] > a[k]

\* np.argmax(a): first position of the maximum; ValueError on an empty array
Argmax(a) == CHOOSE k \in 1..Len(a) :
                 /\ \A j \in 1..Len(a) : a[k] >= a[j]
                 /\ \A j \in 1..(k - 1) : a[j] < a[k]

\* np.delete(a, k, axis=0)
Delete(a, k) == [j \in 1..(Len(a) - 1) |-> IF j < k THEN a[j] ELSE a[j + 1]]

RECURSIVE SumSeq(_)
\* np.sum(a)
SumSeq(a) == IF a = <<>> THEN 0 ELSE a[1] + SumSeq(Tail(a))

RECURSIVE Repeat(_, _)
\* np.repeat(a, counts)
Repeat(a, counts) ==
    IF a = <<>> THEN <<>>
    ELSE [k \in 1..counts[1] |-> a[1]] \o Repeat(Tail(a), Tail(counts))

\* np.vstack((x, y)).T : rows (x[k], y[k])
VstackT(x, y) == [k \in 1..Len(x) |-> <<x[k], y[k]>>]

Fliplr_keep(m) == m

\* np.fliplr(m) on two-column rows
Fliplr(m) == [k \in 1..Len(m) |-> <<m[k][2], m[k][1]>>]

\* np.column_stack((m, c * np.ones(len(m))))
ColumnStack(m, c) == [k \in 1..Len(m) |-> <<m[k][1], m[k][2], c>>]

\* all sequences over S of length exactly n
SeqsOfLen(S, n) == [1..n -> S]

\* ------------------------------------------------------------------ state
VARIABLES
    pc,                \* position in the program
    call,              \* which gen_streets_and_vehicles call runs (1: x, 2: y)
    frame,             \* locals of the two gen_streets_and_vehicles calls
    coords_veh_x,      \* main_sim line 73-74
    coords_veh_y,      \* main_sim line 75-76
    coords_veh,        \* main_sim line 77, 80
    ind_own, coords_own,
    ind_same_street, ind_other_streets,
    ind_los, ind_olos, ind_nlos, ind_very_high_pl,
    pl_obj,
    pathlosses_los, pathlosses_olos, pathlosses_nlos,
    pathlosses

genvars == <<call, frame, coords_veh_x, coords_veh_y>>
simvars == <<ind_own, coords_own, ind_same_street, ind_other_streets,
             ind_los, ind_olos, ind_nlos, ind_very_high_pl, pl_obj,
             pathlosses_los, pathlosses_olos, pathlosses_nlos, pathlosses>>
vars == <<pc, coords_veh, genvars, simvars>>

\* the value of an array name that is not bound yet
None == <<>>

EmptyFrame == [count_streets |-> 0, coords_streets |-> <<>>, counts_veh |-> <<>>,
               i_street |-> 0, coords_veh_x |-> <<>>, coords_veh_y |-> <<>>,
               coords_veh |-> None, returned |-> FALSE]

SimUnbound ==
    /\ ind_own = 0 /\ coords_own = None
    /\ ind_same_street = None /\ ind_other_streets = None
    /\ ind_los = None /\ ind_olos = None
    /\ ind_nlos = None /\ ind_very_high_pl = None
    /\ pl_obj = None
    /\ pathlosses_los = None /\ pathlosses_olos = None /\ pathlosses_nlos = None
    /\ pathlosses = None

\* ------------------------------------------- gen_streets_and_vehicles
RejectDraw_never(count) == FALSE

\* the loop conditions of lines 11 and 18: a zero count is drawn again
RejectDraw(count) == count = 0

\* line 10: entry of call c
GenEnter(c) ==
    /\ pc = IF c = 1 THEN "main_73" ELSE "main_75"
    /\ call' = c
    /\ frame' = [frame EXCEPT ![c] = EmptyFrame]
    /\ pc' = "gen_11"
    /\ UNCHANGED <<coords_veh_x, coords_veh_y, coords_veh, simvars>>

\* line 11: while count_streets == 0
GenStreetsTest ==
    /\ pc = "gen_11"
    /\ pc' = IF RejectDraw(frame[call].count_streets) THEN "gen_12" ELSE "gen_13"
    /\ UNCHANGED <<genvars, coords_veh, simvars>>

\* line 12: count_streets = np.random.poisson(lam_s * road_len, 1)
GenStreetsDraw ==
    /\ pc = "gen_12"
    /\ \E n \in 0..MaxStreets :
          frame' = [frame EXCEPT ![call].count_streets = n]
    /\ pc' = "gen_11"
    /\ UNCHANGED <<call, coords_veh_x, coords_veh_y, coords_veh, simvars>>

\* lines 13, 16: street coordinates, zeroed vehicle counts, loop start
GenStreetCoords ==
    /\ pc = "gen_13"
    /\ \E cs \in SeqsOfLen(UniformSamples, frame[call].count_streets) :
          frame' = [frame EXCEPT
                       ![call].coords_streets = cs,
                       ![call].counts_veh =
                           [k \in 1..frame[call].count_streets |-> 0],
                       ![call].i_street = 1]
    /\ pc' = "gen_17"
    /\ UNCHANGED <<call, coords_veh_x, coords_veh_y, coords_veh, simvars>>

\* line 17: for i_street in np.arange(count_streets)
GenForStreet ==
    /\ pc = "gen_17"
    /\ pc' = IF frame[call].i_street <= frame[call].count_streets
             THEN "gen_18" ELSE "gen_20"
    /\ UNCHANGED <<genvars, coords_veh, simvars>>

\* line 18: while counts_veh[i_street] == 0
GenVehTest ==
    /\ pc = "gen_18"
    /\ IF RejectDraw(frame[call].counts_veh[frame[call].i_street])
       THEN /\ pc' = "gen_19"
            /\ UNCHANGED frame
       ELSE /\ pc' = "gen_17"
            /\ frame' = [frame EXCEPT ![call].i_street = @ + 1]
    /\ UNCHANGED <<call, coords_veh_x, coords_veh_y, coords_veh, simvars>>

\* line 19: counts_veh[i_street] = np.random.poisson(lam_v * road_len, 1)
GenVehDraw ==
    /\ pc = "gen_19"
    /\ \E n \in 0..MaxVehStreet :
          frame' = [frame EXCEPT ![call].counts_veh[frame[call].i_street] = n]
    /\ pc' = "gen_18"
    /\ UNCHANGED <<call, coords_veh_x, coords_veh_y, coords_veh, simvars>>

\* lines 20-24: positions along the streets, the streets' coordinates
\* repeated per vehicle, and the returned rows (along, street coordinate)
GenPlace ==
    /\ pc = "gen_20"
    /\ LET count_veh_all == SumSeq(frame[call].counts_veh)
       IN  \E xs \in SeqsOfLen(UniformSamples, count_veh_all) :
             LET ys == Repeat(frame[call].coords_streets, frame[call].counts_veh)
             IN  frame' = [frame EXCEPT
                              ![call].coords_veh_x = xs,
                              ![call].coords_veh_y = ys,
                              ![call].coords_veh = VstackT(xs, ys),
                              ![call].returned = TRUE]
    /\ pc' = IF call = 1 THEN "main_74" ELSE "main_76"
    /\ UNCHANGED <<call, coords_veh_x, coords_veh_y, coords_veh, simvars>>

\* ------------------------------------------------- main_sim, lines 73-77
\* lines 73-74: the first call's rows, tagged dir = 1
MainTagX ==
    /\ pc = "main_74"
    /\ coords_veh_x' = ColumnStack(frame[1].coords_veh, 1)
    /\ pc' = "main_75"
    /\ UNCHANGED <<call, frame, coords_veh_y, coords_veh, simvars>>

\* lines 75-76: the second call's rows, columns swapped, tagged dir = 0
MainTagY ==
    /\ pc = "main_76"
    /\ coords_veh_y' = ColumnStack(Fliplr(frame[2].coords_veh), 0)
    /\ pc' = "main_77"
    /\ UNCHANGED <<call, frame, coords_veh_x, coords_veh, simvars>>

\* line 77: coords_veh = np.vstack((coords_veh_x, coords_veh_y))
MainVstack ==
    /\ pc = "main_77"
    /\ coords_veh' = coords_veh_x \o coords_veh_y
    /\ pc' = "main_78"
    /\ UNCHANGED <<genvars, simvars>>

InitGen ==
    /\ pc = "main_73"
    /\ call = 0
    /\ frame = [c \in 1..2 |-> EmptyFrame]
    /\ coords_veh_x = None /\ coords_veh_y = None /\ coords_veh = None
    /\ SimUnbound

NextGen ==
    \/ GenEnter(1)
    \/ GenEnter(2)
    \/ GenStreetsTest
    \/ GenStreetsDraw
    \/ GenStreetCoords
    \/ GenForStreet
    \/ GenVehTest
    \/ GenVehDraw
    \/ GenPlace
    \/ MainTagX
    \/ MainTagY
    \/ MainVstack

\* generation and assembly, up to line 77
SpecGen == InitGen /\ [][NextGen]_vars

\* the interpreter keeps executing the program: a runnable statement runs
FairSpecGen == SpecGen /\ WF_vars(NextGen)

\* ------------------------------------------------------ classification
\* np.linalg.norm(center - row), compared through its square times four:
\* the order of the distances, which is all np.argmin reads, is kept
DistCenter(v) ==
    (RoadLen - 2 * At(v, 0)) * (RoadLen - 2 * At(v, 0))
  + (RoadLen - 2 * At(v, 1)) * (RoadLen - 2 * At(v, 1))

find_own_veh_last(coords) ==
    LET distances_center == [k \in 1..Len(coords) |-> DistCenter(coords[k])]
    IN  CHOOSE k \in 1..Len(coords) :
            /\ \A j \in 1..Len(coords) : distances_center[k] <= distances_center[j]
            /\ \A j \in (k + 1)..Len(coords) : distances_center[j] > distances_center[k]

\* find_own_veh: position of the vehicle nearest the centre
find_own_veh(coords) ==
    LET distances_center == [k \in 1..Len(coords) |-> DistCenter(coords[k])]
    IN  Argmin(distances_center)

\* find_same_street_veh: positions with the observer's dir and the
\* observer's coordinate at index dir_own
find_same_street_veh(coords, own) ==
    LET dir_own == At(own, 2)
        coords_street_own == At(own, dir_own)
        ind_veh_same_dir ==
            Flatnonzero([k \in 1..Len(coords) |-> At(coords[k], 2) = dir_own])
        ind_veh_same_coord_dir ==
            Flatnonzero([k \in 1..Len(coords) |->
                            At(coords[k], dir_own) = coords_street_own])
    IN  Intersect1d(ind_veh_same_dir, ind_veh_same_coord_dir)

\* the signed offsets of line 49
Offsets(coords_same_street, own) ==
    LET ind_diff == 1 - At(own, 2)
    IN  [k \in 1..Len(coords_same_street) |->
            At(own, ind_diff) - At(coords_same_street[k], ind_diff)]

\* np.argmin / np.argmax of line 52 or 55 is given an empty array
find_los_veh_raises(coords_same_street, own) ==
    LET distances == Offsets(coords_same_street, own)
    IN  \/ \A k \in 1..Len(distances) : ~(distances[k] > 0)
        \/ \A k \in 1..Len(distances) : ~(distances[k] < 0)

find_los_veh_farthest(coords_same_street, own) ==
    LET distances == Offsets(coords_same_street, own)
        ind_distances_pos == Flatnonzero([k \in 1..Len(distances) |-> distances[k] > 0])
        distances_pos == Take(distances, ind_distances_pos)
        ind_distances_neg == Flatnonzero([k \in 1..Len(distances) |-> distances[k] < 0])
        distances_neg == Take(distances, ind_distances_neg)
    IN  <<ind_distances_pos[Argmax(distances_pos)],
          ind_distances_neg[Argmin(distances_neg)]>>

\* find_los_veh, when it returns: the nearest vehicle on each side
find_los_veh(coords_same_street, own) ==
    LET distances == Offsets(coords_same_street, own)
        ind_distances_pos == Flatnonzero([k \in 1..Len(distances) |-> distances[k] > 0])
        distances_pos == Take(distances, ind_distances_pos)
        ind_los_pos == Argmin(distances_pos)
        ind_distances_neg == Flatnonzero([k \in 1..Len(distances) |-> distances[k] < 0])
        distances_neg == Take(distances, ind_distances_neg)
        ind_los_neg == Argmax(distances_neg)
    IN  <<ind_distances_pos[ind_los_pos], ind_distances_neg[ind_los_neg]>>

find_nlos_veh_sameDir(coords_other_streets, own) ==
    Flatnonzero([k \in 1..Len(coords_other_streets) |->
                    At(coords_other_streets[k], 2) = At(own, 2)])

\* find_nlos_veh: positions whose dir differs from the observer's
find_nlos_veh(coords_other_streets, own) ==
    LET dir_own == At(own, 2)
    IN  Flatnonzero([k \in 1..Len(coords_other_streets) |->
                        At(coords_other_streets[k], 2) # dir_own])

\* lines 78-80: the observer is taken out of coords_veh
MainFindOwn ==
    /\ pc = "main_78"
    /\ ind_own' = find_own_veh(coords_veh)
    /\ coords_own' = coords_veh[ind_own']
    /\ coords_veh' = Delete(coords_veh, ind_own')
    /\ pc' = "main_83"
    /\ UNCHANGED <<genvars, ind_same_street, ind_other_streets, ind_los, ind_olos,
                   ind_nlos, ind_very_high_pl, pl_obj, pathlosses_los,
                   pathlosses_olos, pathlosses_nlos, pathlosses>>

\* lines 83-94, find_los_veh returning
MainClassify ==
    /\ pc = "main_83"
    /\ LET ss == find_same_street_veh(coords_veh, coords_own)
           os == Setdiff1d(Arange(Len(coords_veh)), ss)
           coords_same_street == Take(coords_veh, ss)
           coords_other_streets == Take(coords_veh, os)
       IN  /\ ~find_los_veh_raises(coords_same_street, coords_own)
           /\ ind_same_street' = ss
           /\ ind_other_streets' = os
           /\ ind_los' = find_los_veh(coords_same_street, coords_own)
           /\ ind_olos' = Setdiff1d(Arange(Len(coords_same_street)), ind_los')
           /\ ind_nlos' = find_nlos_veh(coords_other_streets, coords_own)
           /\ ind_very_high_pl' =
                  Setdiff1d(Arange(Len(coords_other_streets)), ind_nlos')
    /\ pc' = "main_98"
    /\ UNCHANGED <<genvars, coords_veh, ind_own, coords_own, pl_obj,
                   pathlosses_los, pathlosses_olos, pathlosses_nlos, pathlosses>>

\* lines 83-87, find_los_veh raising ValueError: main_sim ends there
MainClassifyRaise ==
    /\ pc = "main_83"
    /\ LET ss == find_same_street_veh(coords_veh, coords_own)
           os == Setdiff1d(Arange(Len(coords_veh)), ss)
           coords_same_street == Take(coords_veh, ss)
       IN  /\ find_los_veh_raises(coords_same_street, coords_own)
           /\ ind_same_street' = ss
           /\ ind_other_streets' = os
    /\ pc' = "ValueError"
    /\ UNCHANGED <<genvars, coords_veh, ind_own, coords_own, ind_los, ind_olos,
                   ind_nlos, ind_very_high_pl, pl_obj,
                   pathlosses_los, pathlosses_olos, pathlosses_nlos, pathlosses>>

\* ------------------------------------------------- pathloss aggregation
Abs(x) == IF x < 0 THEN -x ELSE x

\* np.linalg.norm of a difference row (dx, dy): the integer part of the
\* root, which is the root itself for same-street rows, where the
\* component across the street is zero
Norm2(dx, dy) ==
    CHOOSE r \in 0..(Abs(dx) + Abs(dy)) :
        /\ r * r <= dx * dx + dy * dy
        /\ (r + 1) * (r + 1) > dx * dx + dy * dy

\* line 98 for one row
DistOwn(v, own) == Norm2(At(v, 0) - At(own, 0), At(v, 1) - At(own, 1))

\* the pathloss models main_sim may be linked with: the sign of what
\* pathloss_nlos returns is left open by the interface
PathlossModels == {[nlos_sign |-> 1], [nlos_sign |-> -1]}

\* Pathloss.pathloss_los: attenuation of one distance
pathloss_los(obj, d) == 60 + d

\* Pathloss.pathloss_olos: attenuation of one distance
pathloss_olos(obj, d) == 70 + d

\* Pathloss.pathloss_nlos: attenuation of the two legs
pathloss_nlos(obj, d_rx, d_tx) == obj.nlos_sign * (80 + d_rx + 4 * d_tx)

\* the fixed margin of line 119
Margin == 50

RECURSIVE MaxSeq(_)
\* max(a) of line 119
MaxSeq(a) ==
    IF Len(a) = 1 THEN a[1]
    ELSE LET m == MaxSeq(Tail(a)) IN IF a[1] >= m THEN a[1] ELSE m

\* a[idx] = vals: the writes happen in order, the last one to a slot stays
Scatter(a, idx, vals) ==
    [i \in 1..Len(a) |->
        IF \E k \in 1..Len(idx) : idx[k] = i
        THEN LET k == CHOOSE k \in 1..Len(idx) :
                        /\ idx[k] = i
                        /\ \A j \in (k + 1)..Len(idx) : idx[j] # i
             IN  vals[k]
        ELSE a[i]]

PopIndex_local(ind_set, ind_group) == ind_group

\* ind_same_street[ind_los] and its like (lines 114-119): positions of a
\* group in coords_veh
PopIndex(ind_set, ind_group) == Take(ind_set, ind_group)

\* lines 98-119
MainPathloss ==
    /\ pc = "main_98"
    /\ \E obj \in PathlossModels :
        LET coords_same_street == Take(coords_veh, ind_same_street)
            coords_other_streets == Take(coords_veh, ind_other_streets)
            coords_nlos == Take(coords_other_streets, ind_nlos)
            distances_same_street ==
                [k \in 1..Len(coords_same_street) |->
                    DistOwn(coords_same_street[k], coords_own)]
            dir_own == At(coords_own, 2)
            distances_nlos_rx ==
                [k \in 1..Len(coords_nlos) |->
                    Abs(At(coords_nlos[k], 1 - dir_own) - At(coords_own, 1 - dir_own))]
            distances_nlos_tx ==
                [k \in 1..Len(coords_nlos) |->
                    Abs(At(coords_nlos[k], dir_own) - At(coords_own, dir_own))]
            pl_los == [k \in 1..Len(ind_los) |->
                          -pathloss_los(obj, distances_same_street[ind_los[k]])]
            pl_olos == [k \in 1..Len(ind_olos) |->
                          -pathloss_olos(obj, distances_same_street[ind_olos[k]])]
            pl_nlos == [k \in 1..Len(ind_nlos) |->
                          pathloss_nlos(obj, distances_nlos_rx[k], distances_nlos_tx[k])]
            p0 == [i \in 1..Len(coords_veh) |-> 0]
            p1 == Scatter(p0, PopIndex(ind_same_street, ind_los), pl_los)
            p2 == Scatter(p1, PopIndex(ind_same_street, ind_olos), pl_olos)
            p3 == Scatter(p2, PopIndex(ind_other_streets, ind_nlos), pl_nlos)
            ind_vh == PopIndex(ind_other_streets, ind_very_high_pl)
            p4 == Scatter(p3, ind_vh, [k \in 1..Len(ind_vh) |-> MaxSeq(p3) + Margin])
        IN  /\ pl_obj' = obj
            /\ pathlosses_los' = pl_los
            /\ pathlosses_olos' = pl_olos
            /\ pathlosses_nlos' = pl_nlos
            /\ pathlosses' = p4
    /\ pc' = "main_121"
    /\ UNCHANGED <<genvars, coords_veh, ind_own, coords_own, ind_same_street,
                   ind_other_streets, ind_los, ind_olos, ind_nlos, ind_very_high_pl>>

\* what one gen_streets_and_vehicles call can return with at most n rows
GenOutputs(n) ==
    UNION {SeqsOfLen(AlongSamples \X StreetSamples, k) : k \in 1..n}

\* the state at line 78: the two generated sets, tagged and stacked
Init ==
    /\ pc = "main_78"
    /\ call = 2
    /\ frame = [c \in 1..2 |-> EmptyFrame]
    /\ \E gx \in GenOutputs(MaxVehAll - 1) :
         \E gy \in GenOutputs(MaxVehAll - Len(gx)) :
            /\ coords_veh_x = ColumnStack(gx, 1)
            /\ coords_veh_y = ColumnStack(Fliplr(gy), 0)
            /\ coords_veh = coords_veh_x \o coords_veh_y
    /\ SimUnbound

Next ==
    \/ MainFindOwn
    \/ MainClassify
    \/ MainClassifyRaise
    \/ MainPathloss

\* main_sim from line 78 on
Spec == Init /\ [][Next]_vars

\* ======================================================= properties
\* a gen_streets_and_vehicles call c has returned
Returned(c) == frame[c].returned

\* what Init assumes of line 77: each call returns at least one row
\* (along, street coordinate); the first set is tagged 1, the second is
\* swapped and tagged 0 (checked under SpecGen)
AssembledShape ==
    pc = "main_78" =>
        /\ Len(frame[1].coords_veh) >= 1
        /\ Len(frame[2].coords_veh) >= 1
        /\ coords_veh = ColumnStack(frame[1].coords_veh, 1)
                        \o ColumnStack(Fliplr(frame[2].coords_veh), 0)

\* C4: whenever gen_streets_and_vehicles has returned, its street count is
\* at least 1, every street's vehicle count is at least 1, and the returned
\* rows are exactly those counts' vehicles: no zero draw reaches the output.
C4_NoDegenerateDraw ==
    \A c \in 1..2 :
        Returned(c) =>
            /\ frame[c].count_streets >= 1
            /\ Len(frame[c].counts_veh) = frame[c].count_streets
            /\ \A i \in 1..Len(frame[c].counts_veh) : frame[c].counts_veh[i] >= 1
            /\ Len(frame[c].coords_veh) = SumSeq(frame[c].counts_veh)
            /\ Len(frame[c].coords_veh) >= frame[c].count_streets

\* both calls have returned, one of them with two streets and one with a
\* street of two vehicles
C4_Witness ==
    /\ Returned(1) /\ Returned(2)
    /\ frame[1].count_streets = 2
    /\ \E i \in 1..Len(frame[2].counts_veh) : frame[2].counts_veh[i] = 2

\* the street (position in coords_streets) the j-th returned row is on
StreetOfRow(counts, j) ==
    CHOOSE i \in 1..Len(counts) :
        /\ SumSeq(SubSeq(counts, 1, i - 1)) < j
        /\ j <= SumSeq(SubSeq(counts, 1, i))

\* C9: after line 77 every vehicle has its street's coordinate at index
\* dir and its along-street position at index 1-dir; the first call's
\* vehicles have dir = 1, the second call's have dir = 0.
C9_IdentityAtDir ==
    pc = "main_78" =>
        /\ Len(coords_veh) = Len(frame[1].coords_veh_x) + Len(frame[2].coords_veh_x)
        /\ \A c \in 1..2 :
             \A j \in 1..Len(frame[c].coords_veh_x) :
                LET v == coords_veh[(IF c = 1 THEN 0 ELSE Len(frame[1].coords_veh_x)) + j]
                    dir == At(v, 2)
                IN  /\ dir = (IF c = 1 THEN 1 ELSE 0)
                    /\ At(v, dir) =
                          frame[c].coords_streets[StreetOfRow(frame[c].counts_veh, j)]
                    /\ At(v, 1 - dir) = frame[c].coords_veh_x[j]

\* assembled, with a second-call vehicle whose two coordinates differ and a
\* first-call street of two vehicles
C9_Witness ==
    /\ pc = "main_78"
    /\ \E j \in 1..Len(coords_veh) :
          /\ At(coords_veh[j], 2) = 0
          /\ At(coords_veh[j], 0) # At(coords_veh[j], 1)
    /\ \E i \in 1..Len(frame[1].counts_veh) : frame[1].counts_veh[i] = 2
    /\ frame[2].count_streets = 2

\* C10: each rejection loop of gen_streets_and_vehicles ends after a
\* bounded number of retries whatever is drawn, so generation and assembly
\* always get to line 78.
C10_RetriesEnd == <>(pc = "main_78")

\* ------------------------------------------------ main_sim from line 78
\* lines 83-94 have run
Classified == pc \in {"main_98", "main_121"}

\* the four groups as positions in coords_veh
LosPop == Range(PopIndex(ind_same_street, ind_los))
OlosPop == Range(PopIndex(ind_same_street, ind_olos))
NlosPop == Range(PopIndex(ind_other_streets, ind_nlos))
UnreachablePop == Range(PopIndex(ind_other_streets, ind_very_high_pl))

\* the geometry the classes are defined by, read off the rows
OnOwnStreet(v) ==
    /\ At(v, 2) = At(coords_own, 2)
    /\ At(v, At(coords_own, 2)) = At(coords_own, At(coords_own, 2))

\* observer_position - vehicle_position along axis 1 - dir_own
AlongOffset(v) ==
    At(coords_own, 1 - At(coords_own, 2)) - At(v, 1 - At(coords_own, 2))

\* C1: once classified, LOS, OLOS, NLOS and UNREACHABLE, as positions in
\* the population, are pairwise disjoint and together are every position:
\* each non-observer vehicle is in exactly one class.
C1_Partition ==
    Classified =>
        /\ LosPop \cup OlosPop \cup NlosPop \cup UnreachablePop = 1..Len(coords_veh)
        /\ LosPop \cap OlosPop = {}
        /\ LosPop \cap NlosPop = {}
        /\ LosPop \cap UnreachablePop = {}
        /\ OlosPop \cap NlosPop = {}
        /\ OlosPop \cap UnreachablePop = {}
        /\ NlosPop \cap UnreachablePop = {}
        /\ Len(ind_los) + Len(ind_olos) + Len(ind_nlos) + Len(ind_very_high_pl)
              = Len(coords_veh)

\* classified, with vehicles on the observer's street, on a crossing
\* street and on a parallel street
C1_Witness ==
    /\ Classified
    /\ LosPop # {}
    /\ NlosPop # {}
    /\ UnreachablePop # {}

\* the same-street set has vehicles, all on one side of the observer
OneSided ==
    /\ pc \notin {"main_78", "main_83"}
    /\ \E i \in 1..Len(coords_veh) : OnOwnStreet(coords_veh[i])
    /\ \/ \A i \in 1..Len(coords_veh) :
             OnOwnStreet(coords_veh[i]) => AlongOffset(coords_veh[i]) > 0
       \/ \A i \in 1..Len(coords_veh) :
             OnOwnStreet(coords_veh[i]) => AlongOffset(coords_veh[i]) < 0

\* C2: with same-street vehicles on one side only, lines 87-88 do not fail
\* and give fewer than two LOS vehicles.
C2_OneSidedClassified ==
    OneSided => (pc # "ValueError" /\ Len(ind_los) < 2)

\* C3: every UNREACHABLE vehicle's merged value is the largest value
\* computed for a LOS, OLOS or NLOS vehicle plus 50.
C3_SentinelIsMaxPlusMargin ==
    pc = "main_121" =>
        \A i \in UnreachablePop :
            pathlosses[i] =
                MaxSeq(pathlosses_los \o pathlosses_olos \o pathlosses_nlos) + 50

\* C5: once classified, LOS is a same-street vehicle of smallest strictly
\* positive offset together with one of strictly negative offset nearest
\* zero; at most two vehicles are LOS and every other same-street vehicle
\* is OLOS.
C5_LosNearestEachSide ==
    Classified =>
        LET street == {i \in 1..Len(coords_veh) : OnOwnStreet(coords_veh[i])}
            off(i) == AlongOffset(coords_veh[i])
        IN  /\ \E p \in street, n \in street :
                 /\ off(p) > 0 /\ off(n) < 0
                 /\ \A q \in street : off(q) > 0 => off(p) <= off(q)
                 /\ \A q \in street : off(q) < 0 => off(n) >= off(q)
                 /\ LosPop = {p, n}
            /\ Cardinality(LosPop) <= 2
            /\ OlosPop = street \ LosPop

\* classified, with a same-street vehicle behind the LOS vehicle of its
\* side
C5_Witness ==
    /\ Classified
    /\ \E i \in OlosPop, j \in LosPop :
          AlongOffset(coords_veh[i]) > AlongOffset(coords_veh[j])
          /\ AlongOffset(coords_veh[j]) > 0

\* C6: once classified, NLOS vehicles have a dir other than the
\* observer's, UNREACHABLE vehicles have the observer's dir and another
\* coordinate at index dir_own, and every vehicle off the observer's
\* street is NLOS or UNREACHABLE by that same test.
C6_NlosUnreachableByDir ==
    Classified =>
        \A i \in 1..Len(coords_veh) :
            LET v == coords_veh[i]
                dir_own == At(coords_own, 2)
            IN  /\ i \in NlosPop => At(v, 2) # dir_own
                /\ i \in UnreachablePop =>
                       /\ At(v, 2) = dir_own
                       /\ At(v, dir_own) # At(coords_own, dir_own)
                /\ (~OnOwnStreet(v) /\ At(v, 2) # dir_own) => i \in NlosPop
                /\ (~OnOwnStreet(v) /\ At(v, 2) = dir_own) => i \in UnreachablePop

\* classified, with a parallel-street vehicle and a crossing-street
\* vehicle that has the observer's street coordinate at index dir_own
C6_Witness ==
    /\ Classified
    /\ UnreachablePop # {}
    /\ \E i \in NlosPop :
          At(coords_veh[i], At(coords_own, 2)) = At(coords_own, At(coords_own, 2))

\* C7: lines 78-80 pick the first vehicle of least distance to the centre
\* and delete exactly that row: one row less, the others unchanged and in
\* order.
C7_FirstNearestRemoved ==
    [][pc = "main_78" =>
          /\ ind_own' \in 1..Len(coords_veh)
          /\ \A j \in 1..Len(coords_veh) :
                DistCenter(coords_veh[ind_own']) <= DistCenter(coords_veh[j])
          /\ \A j \in 1..(ind_own' - 1) :
                DistCenter(coords_veh[j]) > DistCenter(coords_veh[ind_own'])
          /\ coords_own' = coords_veh[ind_own']
          /\ Len(coords_veh') = Len(coords_veh) - 1
          /\ \A j \in 1..Len(coords_veh') :
                coords_veh'[j] = coords_veh[IF j < ind_own' THEN j ELSE j + 1]
      ]_vars

\* the observer is taken out, and a later vehicle is as near the centre
C7_Witness ==
    /\ pc = "main_83"
    /\ ind_own > 1
    /\ \E j \in ind_own..Len(coords_veh) :
          DistCenter(coords_veh[j]) = DistCenter(coords_own)

\* the LOS vehicles by geometry: first of the least positive offset, first
\* of the negative offset nearest zero
IsLos(i) ==
    LET street == {j \in 1..Len(coords_veh) : OnOwnStreet(coords_veh[j])}
        off(j) == AlongOffset(coords_veh[j])
    IN  /\ i \in street
        /\ \/ /\ off(i) > 0
              /\ \A j \in street :
                    off(j) > 0 => (off(i) < off(j) \/ (off(i) = off(j) /\ i <= j))
           \/ /\ off(i) < 0
              /\ \A j \in street :
                    off(j) < 0 => (off(i) > off(j) \/ (off(i) = off(j) /\ i <= j))

\* the value of the vehicle at position i, from its own row
ValueOf(i) ==
    LET v == coords_veh[i]
        dir_own == At(coords_own, 2)
    IN  IF OnOwnStreet(v)
        THEN IF IsLos(i)
             THEN -pathloss_los(pl_obj, Abs(AlongOffset(v)))
             ELSE -pathloss_olos(pl_obj, Abs(AlongOffset(v)))
        ELSE pathloss_nlos(pl_obj, Abs(AlongOffset(v)),
                           Abs(At(v, dir_own) - At(coords_own, dir_own)))

\* C8: the merged array is as long as the population and holds at every
\* position the value computed for the vehicle at that position by its
\* class (for UNREACHABLE the one value line 119 gives that class).
C8_MergedByPosition ==
    pc = "main_121" =>
        /\ Len(pathlosses) = Len(coords_veh)
        /\ \A i \in 1..Len(coords_veh) :
              IF ~OnOwnStreet(coords_veh[i])
                 /\ At(coords_veh[i], 2) = At(coords_own, 2)
              THEN /\ \A j \in 1..Len(coords_veh) :
                         j \notin UnreachablePop =>
                             pathlosses[i] >= pathlosses[j] + Margin
                   /\ \A j \in UnreachablePop : pathlosses[i] = pathlosses[j]
              ELSE pathlosses[i] = ValueOf(i)

\* merged, with all of LOS, NLOS and UNREACHABLE and a same-street vehicle
\* that is not first in the population
C8_Witness ==
    /\ pc = "main_121"
    /\ UnreachablePop # {}
    /\ NlosPop # {}
    /\ \E i \in LosPop : i > Len(ind_same_street)

====
